---- MODULE Spec2Model ----
(***************************************************************************)
(* poterm: the gettext catalog (src/src/gettext.rs), the editing session   *)
(* (src/src/ui.rs) and the key dispatch (src/src/main.rs).                  *)
(*                                                                         *)
(* A Rust String is a sequence of characters; a character is a one-element *)
(* TLA+ string.  WideChar stands for a code point that takes two bytes in  *)
(* UTF-8 (the Cyrillic letters of the tests in ui.rs).  Indices keep the   *)
(* source's 0-based values: lines[i] of the source is lines[i + 1] here.   *)
(***************************************************************************)
EXTENDS Integers, Sequences, FiniteSets, TLC

BSLASH == "\\"
QUOTE == "\""
NL == "\n"
TAB == "\t"
CR == "\r"
SP == " "
WideChar == "U+0436"

SetMin(S) == CHOOSE m \in S : \A n \in S : m <= n
SetMax(S) == CHOOSE m \in S : \A n \in S : m >= n
Min2(a, b) == IF a <= b THEN a ELSE b

(***************************************************************************)
(* std string primitives used by the source                                *)
(***************************************************************************)
is_whitespace(ch) == ch \in {SP, TAB, NL, CR}

len_utf8(ch) == IF ch = WideChar THEN 2 ELSE 1

to_lowercase_char(ch) ==
    IF ch = "A" THEN "a"
    ELSE IF ch = "B" THEN "b"
    ELSE IF ch = "C" THEN "c"
    ELSE IF ch = "X" THEN "x"
    ELSE IF ch = "Y" THEN "y"
    ELSE ch

to_lowercase(s) == [k \in 1..Len(s) |-> to_lowercase_char(s[k])]

starts_with(s, p) == Len(s) >= Len(p) /\ SubSeq(s, 1, Len(p)) = p

ends_with(s, p) == Len(s) >= Len(p) /\ SubSeq(s, Len(s) - Len(p) + 1, Len(s)) = p

\* str::contains: sub occurs in s as a contiguous run
contains(s, sub) ==
    \E k \in 1..(Len(s) + 1) :
        k + Len(sub) - 1 <= Len(s) /\ SubSeq(s, k, k + Len(sub) - 1) = sub

\* &s[n..] for a byte offset n that follows ASCII characters only
from(s, n) == SubSeq(s, n + 1, Len(s))

trim(s) ==
    LET keep == {k \in 1..Len(s) : ~is_whitespace(s[k])}
    IN IF keep = {} THEN <<>> ELSE SubSeq(s, SetMin(keep), SetMax(keep))

RECURSIVE split_at(_, _)
\* str::split(ch): the pieces between the occurrences of ch
split_at(s, ch) ==
    LET hits == {k \in 1..Len(s) : s[k] = ch}
    IN IF hits = {} THEN <<s>>
       ELSE <<SubSeq(s, 1, SetMin(hits) - 1)>>
                \o split_at(SubSeq(s, SetMin(hits) + 1, Len(s)), ch)

strip_cr(l) == IF Len(l) > 0 /\ l[Len(l)] = CR THEN SubSeq(l, 1, Len(l) - 1) ELSE l

\* str::lines: split at "\n", a "\r" right before it is dropped, and a final
\* empty piece (the text ended with "\n", or is empty) is no line
str_lines(s) ==
    LET parts == split_at(s, NL)
        n == Len(parts)
        cut == [k \in 1..n |-> IF k < n THEN strip_cr(parts[k]) ELSE parts[k]]
    IN IF cut[n] = <<>> THEN SubSeq(cut, 1, n - 1) ELSE cut

RECURSIVE replace_char(_, _, _)
\* str::replace(ch, rep)
replace_char(s, ch, rep) ==
    IF s = <<>> THEN <<>>
    ELSE (IF Head(s) = ch THEN rep ELSE <<Head(s)>>) \o replace_char(Tail(s), ch, rep)

RECURSIVE join(_, _)
\* [String]::join(sep)
join(ss, sep) ==
    IF ss = <<>> THEN <<>>
    ELSE IF Len(ss) = 1 THEN ss[1]
    ELSE ss[1] \o sep \o join(Tail(ss), sep)

(***************************************************************************)
(* gettext.rs: PoEntry                                                     *)
(***************************************************************************)
FUZZY == <<"f", "u", "z", "z", "y">>

\* Option<String>: None is the empty sequence, Some(s) is <<s>>
None == <<>>
Some(s) == <<s>>

PoEntry_new ==
    [msgid |-> <<>>, msgstr |-> <<>>, msgctxt |-> None, comments |-> <<>>,
     extracted_comments |-> <<>>, references |-> <<>>, flags |-> <<>>,
     is_fuzzy |-> FALSE, is_translated |-> FALSE]

\* Vec<String>::contains
vec_contains(v, x) == \E k \in 1..Len(v) : v[k] = x

\* flags.retain(|f| f != "fuzzy")
retain_not_fuzzy(flags) == SelectSeq(flags, LAMBDA f : f # FUZZY)

\* update_status that takes every entry with a msgstr as translated
update_status_ignores_fuzzy(entry) ==
    [entry EXCEPT !.is_fuzzy = vec_contains(entry.flags, FUZZY),
                  !.is_translated = Len(entry.msgstr) > 0]

update_status(entry) ==
    LET fz == vec_contains(entry.flags, FUZZY)
    IN [entry EXCEPT !.is_fuzzy = fz,
                     !.is_translated = (Len(entry.msgstr) > 0 /\ ~fz)]

\* set_msgstr without the call of update_status
set_msgstr_no_update(entry, msgstr) == [entry EXCEPT !.msgstr = msgstr]

set_msgstr(entry, msgstr) == update_status([entry EXCEPT !.msgstr = msgstr])

\* toggle_fuzzy that pushes "fuzzy" whatever is_fuzzy is
toggle_fuzzy_appends(entry) ==
    update_status([entry EXCEPT !.flags = Append(@, FUZZY)])

toggle_fuzzy(entry) ==
    update_status([entry EXCEPT !.flags =
        IF entry.is_fuzzy THEN retain_not_fuzzy(@) ELSE Append(@, FUZZY)])

(***************************************************************************)
(* gettext.rs: string literals                                             *)
(***************************************************************************)
RECURSIVE unescape(_)
\* the `while let Some(ch) = chars.next()` loop of parse_string_literal
unescape(c) ==
    IF c = <<>> THEN <<>>
    ELSE IF c[1] = BSLASH THEN
        IF Len(c) = 1 THEN <<BSLASH>>
        ELSE LET rest == unescape(SubSeq(c, 3, Len(c)))
             IN IF c[2] = "n" THEN <<NL>> \o rest
                ELSE IF c[2] = "t" THEN <<TAB>> \o rest
                ELSE IF c[2] = "r" THEN <<CR>> \o rest
                ELSE IF c[2] = BSLASH THEN <<BSLASH>> \o rest
                ELSE IF c[2] = QUOTE THEN <<QUOTE>> \o rest
                ELSE <<BSLASH, c[2]>> \o rest
    ELSE <<c[1]>> \o unescape(Tail(c))

\* &s[1..s.len() - 1] on the one-character string "\"": the range 1..0 panics
literal_panics(s) == s = <<QUOTE>>

\* parse_string_literal that drops the backslash of every escape
parse_string_literal_drops_backslash(s) ==
    IF ~starts_with(s, <<QUOTE>>) \/ ~ends_with(s, <<QUOTE>>) THEN s
    ELSE SelectSeq(unescape(SubSeq(s, 2, Len(s) - 1)), LAMBDA ch : ch # BSLASH)

\* the value of Ok(..); the function has no Err return
parse_string_literal(s) ==
    IF ~starts_with(s, <<QUOTE>>) \/ ~ends_with(s, <<QUOTE>>) THEN s
    ELSE unescape(SubSeq(s, 2, Len(s) - 1))

\* escape_string with the backslash replaced last
escape_string_backslash_last(s) ==
    replace_char(
        replace_char(
            replace_char(
                replace_char(
                    replace_char(s, NL, <<BSLASH, "n">>),
                    TAB, <<BSLASH, "t">>),
                CR, <<BSLASH, "r">>),
            QUOTE, <<BSLASH, QUOTE>>),
        BSLASH, <<BSLASH, BSLASH>>)

escape_string(s) ==
    replace_char(
        replace_char(
            replace_char(
                replace_char(
                    replace_char(s, BSLASH, <<BSLASH, BSLASH>>),
                    NL, <<BSLASH, "n">>),
                TAB, <<BSLASH, "t">>),
            CR, <<BSLASH, "r">>),
        QUOTE, <<BSLASH, QUOTE>>)

MSGID == <<"m", "s", "g", "i", "d">>
MSGSTR == <<"m", "s", "g", "s", "t", "r">>
MSGCTXT == <<"m", "s", "g", "c", "t", "x", "t">>

\* msg(?:id|str|ctxt) at position p: the length of the keyword matched, or 0
keyword_len_at(line, p) ==
    LET rest == SubSeq(line, p, Len(line))
    IN IF starts_with(rest, MSGID) THEN Len(MSGID)
       ELSE IF starts_with(rest, MSGSTR) THEN Len(MSGSTR)
       ELSE IF starts_with(rest, MSGCTXT) THEN Len(MSGCTXT)
       ELSE 0

last_quote(line) ==
    LET qs == {k \in 1..Len(line) : line[k] = QUOTE}
    IN IF qs = {} THEN 0 ELSE SetMax(qs)

\* the regex msg(?:id|str|ctxt)\s+"(.*)" tried at position p: the index of the
\* opening quote when it matches there, else 0.  The line holds no "\n", so the
\* greedy (.*)" runs to the last quote of the line.
regex_match_at(line, p) ==
    LET kl == keyword_len_at(line, p)
        nonws == {k \in (p + kl)..Len(line) : ~is_whitespace(line[k])}
        q == IF nonws = {} THEN 0 ELSE SetMin(nonws)
    IN IF kl > 0 /\ q > p + kl /\ line[q] = QUOTE /\ last_quote(line) > q THEN q ELSE 0

\* re.captures(line) is the leftmost match
parse_string_value(line) ==
    LET starts == {p \in 1..Len(line) : regex_match_at(line, p) > 0}
    IN IF starts = {} THEN <<>>
       ELSE LET q == regex_match_at(line, SetMin(starts))
            IN parse_string_literal(
                   <<QUOTE>> \o SubSeq(line, q + 1, last_quote(line) - 1) \o <<QUOTE>>)

(***************************************************************************)
(* gettext.rs: PoFile and its parser                                       *)
(***************************************************************************)
NoPath == "None"
PoPath == "Some(path)"

\* HashMap<String, String> as the set of its <<key, value>> pairs
header_insert(header, key, value) ==
    {kv \in header : kv[1] # key} \cup {<<key, value>>}

header_keys(header) == {kv[1] : kv \in header}

header_get(header, key) == (CHOOSE kv \in header : kv[1] = key)[2]

PoFile_default == [path |-> NoPath, header |-> {}, entries |-> <<>>, modified |-> FALSE]

RECURSIVE parse_metadata(_, _, _)
\* the comment and metadata loop
parse_metadata(lines, i, entry) ==
    IF i >= Len(lines) THEN [i |-> i, entry |-> entry]
    ELSE LET line == trim(lines[i + 1])
         IN IF line = <<>> THEN [i |-> i, entry |-> entry]
            ELSE IF starts_with(line, <<"#", ".">>) THEN
                parse_metadata(lines, i + 1,
                    [entry EXCEPT !.extracted_comments = Append(@, trim(from(line, 2)))])
            ELSE IF starts_with(line, <<"#", ":">>) THEN
                parse_metadata(lines, i + 1,
                    [entry EXCEPT !.references = Append(@, trim(from(line, 2)))])
            ELSE IF starts_with(line, <<"#", ",">>) THEN
                parse_metadata(lines, i + 1,
                    [entry EXCEPT !.flags =
                        @ \o [k \in 1..Len(split_at(from(line, 2), ",")) |->
                                 trim(split_at(from(line, 2), ",")[k])]])
            ELSE IF starts_with(line, <<"#">>) /\ ~starts_with(line, <<"#", "~">>) THEN
                parse_metadata(lines, i + 1,
                    [entry EXCEPT !.comments = Append(@, trim(from(line, 1)))])
            ELSE [i |-> i, entry |-> entry]

RECURSIVE parse_continuation(_, _, _)
\* the "Handle multiline" loops: each following line that starts with a quote is
\* decoded and appended.  parse_string_literal never returns Err, so the Err arms
\* of the msgid and msgstr loops are never taken; it panics on a lone quote.
parse_continuation(lines, i, acc) ==
    IF i < Len(lines) /\ starts_with(trim(lines[i + 1]), <<QUOTE>>) THEN
        IF literal_panics(trim(lines[i + 1]))
        THEN [i |-> i, val |-> acc, panic |-> TRUE]
        ELSE parse_continuation(lines, i + 1,
                                acc \o parse_string_literal(trim(lines[i + 1])))
    ELSE [i |-> i, val |-> acc, panic |-> FALSE]

\* keyword line and its continuation lines, when the line at i starts with kw
parse_field(lines, i, kw, before) ==
    IF ~before.panic /\ i < Len(lines) /\ starts_with(trim(lines[i + 1]), kw)
    THEN [found |-> TRUE] @@
         parse_continuation(lines, i + 1, parse_string_value(trim(lines[i + 1])))
    ELSE [found |-> FALSE, i |-> i, val |-> <<>>, panic |-> before.panic]

RECURSIVE parse_header(_, _)
\* for line in entry.msgstr.lines(): split on the first ':'
parse_header(header, ls) ==
    IF ls = <<>> THEN header
    ELSE LET line == Head(ls)
             colons == {k \in 1..Len(line) : line[k] = ":"}
         IN parse_header(
                IF colons = {} THEN header
                ELSE header_insert(header,
                                   trim(SubSeq(line, 1, SetMin(colons) - 1)),
                                   trim(SubSeq(line, SetMin(colons) + 1, Len(line)))),
                Tail(ls))

\* "Handle header entry (msgid is empty)" that takes the header lines of every
\* block with an empty msgid
handle_header_entry_anywhere(po_file, entry, start_i) ==
    IF entry.msgid = <<>>
    THEN [po_file EXCEPT !.header = parse_header(@, str_lines(entry.msgstr))]
    ELSE [po_file EXCEPT !.entries = Append(@, entry)]

\* "Handle header entry (msgid is empty)", else the push of the entry
handle_header_entry(po_file, entry, start_i) ==
    IF entry.msgid = <<>> /\ start_i = 0
    THEN [po_file EXCEPT !.header = parse_header(@, str_lines(entry.msgstr))]
    ELSE IF entry.msgid # <<>>
    THEN [po_file EXCEPT !.entries = Append(@, entry)]
    ELSE po_file

\* one iteration of the block loop on a non-empty line: "Parse entry" to the push
parse_block(lines, start_i, po_file) ==
    LET m == parse_metadata(lines, start_i, PoEntry_new)
        c == parse_field(lines, m.i, MSGCTXT, [panic |-> FALSE])
        d == parse_field(lines, c.i, MSGID, c)
        s == parse_field(lines, d.i, MSGSTR, d)
        entry == update_status(
                     [m.entry EXCEPT !.msgctxt = IF c.found THEN Some(c.val) ELSE None,
                                     !.msgid = d.val,
                                     !.msgstr = s.val])
    IN [i |-> s.i,
        panic |-> s.panic,
        po_file |-> handle_header_entry(po_file, entry, start_i)]

\* whether parse_string_value(line) is an Err: Regex::new of the constant
\* pattern is Ok, a match returns what parse_string_literal returns and no match
\* returns Ok(String::new())
parse_string_value_is_err(line) == FALSE

\* whether parse_string_literal(s) is an Err: both of its returns are Ok
parse_string_literal_is_err(s) == FALSE

\* the line numbers of the messages parse_errors gains while the lines
\* from + 1 .. to are parsed: a message is pushed only in the Err arms of the
\* matches on parse_string_value (keyword lines) and on parse_string_literal
\* (lines that start with a quote)
parse_errors(lines, from_i, to_i) ==
    {k + 1 : k \in {j \in from_i..(to_i - 1) :
        \/ /\ keyword_len_at(trim(lines[j + 1]), 1) > 0
           /\ parse_string_value_is_err(trim(lines[j + 1]))
        \/ /\ starts_with(trim(lines[j + 1]), <<QUOTE>>)
           /\ parse_string_literal_is_err(trim(lines[j + 1]))}}

(***************************************************************************)
(* gettext.rs: the serializer                                              *)
(***************************************************************************)
RECURSIVE prefixed_lines(_, _)
\* for x in v: output.push_str(&format!("<prefix> {}\n", x))
prefixed_lines(prefix, v) ==
    IF v = <<>> THEN <<>>
    ELSE prefix \o <<SP>> \o Head(v) \o <<NL>> \o prefixed_lines(prefix, Tail(v))

quoted_line(kw, s) == kw \o <<SP, QUOTE>> \o escape_string(s) \o <<QUOTE, NL>>

entry_to_string(entry) ==
    prefixed_lines(<<"#">>, entry.comments)
        \o prefixed_lines(<<"#", ".">>, entry.extracted_comments)
        \o prefixed_lines(<<"#", ":">>, entry.references)
        \o (IF entry.flags # <<>>
            THEN <<"#", ",", SP>> \o join(entry.flags, <<",", SP>>) \o <<NL>>
            ELSE <<>>)
        \o (IF entry.msgctxt # None THEN quoted_line(MSGCTXT, entry.msgctxt[1]) ELSE <<>>)
        \o quoted_line(MSGID, entry.msgid)
        \o quoted_line(MSGSTR, entry.msgstr)
        \o <<NL>>

RECURSIVE header_lines(_)
\* "{key}: {escaped value}\n" as a quoted literal per header field; the key is
\* written as it is
header_lines(kvs) ==
    IF kvs = <<>> THEN <<>>
    ELSE <<QUOTE>> \o Head(kvs)[1] \o <<":", SP>> \o escape_string(Head(kvs)[2])
             \o <<BSLASH, "n", QUOTE, NL>> \o header_lines(Tail(kvs))

RECURSIVE entries_to_string(_)
entries_to_string(entries) ==
    IF entries = <<>> THEN <<>>
    ELSE entry_to_string(Head(entries)) \o entries_to_string(Tail(entries))

\* the orders in which a HashMap may be iterated
iteration_orders(header) ==
    {o \in [1..Cardinality(header) -> header] :
        \A a, b \in 1..Cardinality(header) : a # b => o[a] # o[b]}

\* PoFile::to_string, with the header iterated in the order kvs
to_string(po_file, kvs) ==
    (IF po_file.header # {}
     THEN MSGID \o <<SP, QUOTE, QUOTE, NL>> \o MSGSTR \o <<SP, QUOTE, QUOTE, NL>>
              \o header_lines(kvs) \o <<NL>>
     ELSE <<>>)
        \o entries_to_string(po_file.entries)

PO_REVISION_DATE == <<"P", "O", "-", "R", "e", "v", "i", "s", "i", "o", "n", "-", "D", "a", "t", "e">>

\* chrono::Utc::now() formatted "%Y-%m-%d %H:%M%z": the clock is an input, and a
\* formatted time is a single token here
Timestamps == {<<"<now-1>">>, <<"<now-2>">>}

set_header_field(po_file, key, value) ==
    [po_file EXCEPT !.header = header_insert(@, key, value), !.modified = TRUE]

update_revision_date(po_file, now) == set_header_field(po_file, PO_REVISION_DATE, now)

\* PoFile::mark_modified that leaves the flag as it is
mark_modified_forgets(po_file) == po_file

mark_modified(po_file) == [po_file EXCEPT !.modified = TRUE]

\* (total, translated, fuzzy)
get_stats(po_file) ==
    <<Len(po_file.entries),
      Cardinality({k \in 1..Len(po_file.entries) : po_file.entries[k].is_translated}),
      Cardinality({k \in 1..Len(po_file.entries) : po_file.entries[k].is_fuzzy})>>

\* PoFile::from_file, from the catalog Self::parse returned on
from_file(po_file) == [po_file EXCEPT !.path = PoPath, !.modified = FALSE]

POT_CREATION_DATE == <<"P", "O", "T", "-", "C", "r", "e", "a", "t", "i", "o", "n", "-", "D", "a", "t", "e">>
YEAR_MO_DA == <<"Y", "E", "A", "R", "-", "M", "O", "-", "D", "A">>

\* the loop of from_pot_template that clears msgstr and leaves the flags
clear_entry_keeps_flags(entry) ==
    IF entry.msgid # <<>>
    THEN [entry EXCEPT !.msgstr = <<>>, !.is_translated = FALSE, !.is_fuzzy = FALSE]
    ELSE entry

\* the loop "Clear all msgstr fields for translation"
clear_entry(entry) ==
    IF entry.msgid # <<>>
    THEN [entry EXCEPT !.msgstr = <<>>, !.is_translated = FALSE, !.is_fuzzy = FALSE,
                       !.flags = retain_not_fuzzy(@)]
    ELSE entry

\* PoFile::from_pot_template, from the catalog Self::parse returned on
from_pot_template(po_file, now) ==
    LET h1 == header_insert(po_file.header, PO_REVISION_DATE, now)
        h2 == IF POT_CREATION_DATE \notin header_keys(h1)
                  \/ contains(header_get(h1, POT_CREATION_DATE), YEAR_MO_DA)
              THEN header_insert(h1, POT_CREATION_DATE, now)
              ELSE h1
    IN [path |-> PoPath,
        header |-> h2,
        entries |-> [k \in 1..Len(po_file.entries) |-> clear_entry(po_file.entries[k])],
        modified |-> TRUE]

(***************************************************************************)
(* ui.rs: App                                                              *)
(***************************************************************************)
PAGE_SIZE == 10

metadata_keys ==
    <<<<"P", "r", "o", "j", "e", "c", "t", "-", "I", "d", "-", "V", "e", "r", "s", "i", "o", "n">>,
       <<"L", "a", "n", "g", "u", "a", "g", "e">>,
       <<"L", "a", "n", "g", "u", "a", "g", "e", "-", "T", "e", "a", "m">>,
       <<"L", "a", "s", "t", "-", "T", "r", "a", "n", "s", "l", "a", "t", "o", "r">>,
       <<"R", "e", "p", "o", "r", "t", "-", "M", "s", "g", "i", "d", "-", "B", "u", "g", "s", "-", "T", "o">>,
       <<"P", "O", "T", "-", "C", "r", "e", "a", "t", "i", "o", "n", "-", "D", "a", "t", "e">>,
       <<"P", "O", "-", "R", "e", "v", "i", "s", "i", "o", "n", "-", "D", "a", "t", "e">>,
       <<"M", "I", "M", "E", "-", "V", "e", "r", "s", "i", "o", "n">>,
       <<"C", "o", "n", "t", "e", "n", "t", "-", "T", "y", "p", "e">>,
       <<"C", "o", "n", "t", "e", "n", "t", "-", "T", "r", "a", "n", "s", "f", "e", "r", "-", "E", "n", "c", "o", "d", "i", "n", "g">>,
       <<"P", "l", "u", "r", "a", "l", "-", "F", "o", "r", "m", "s">>>>

RECURSIVE byte_len(_)
\* str::len: the length in bytes
byte_len(text) == IF text = <<>> THEN 0 ELSE len_utf8(Head(text)) + byte_len(Tail(text))

\* text.char_indices().nth(char_idx).map(|(i, _)| i).unwrap_or(text.len())
char_to_byte_index(text, char_idx) ==
    IF char_idx < Len(text) THEN byte_len(SubSeq(text, 1, char_idx)) ELSE byte_len(text)

\* String::insert(byte_pos, ch); byte_pos lies on a character boundary
string_insert(text, byte_pos, ch) ==
    LET k == CHOOSE k \in 0..Len(text) : byte_len(SubSeq(text, 1, k)) = byte_pos
    IN SubSeq(text, 1, k) \o <<ch>> \o SubSeq(text, k + 1, Len(text))

remove_char_at(text, char_idx) ==
    IF char_idx < Len(text)
    THEN SubSeq(text, 1, char_idx) \o SubSeq(text, char_idx + 2, Len(text))
    ELSE text

\* insert_char_at that appends the char whatever the position is
insert_char_at_appends(text, char_idx, ch) == text \o <<ch>>

insert_char_at(text, char_idx, ch) ==
    string_insert(text, char_to_byte_index(text, char_idx), ch)

matches_filter(filter_mode, entry) ==
    IF filter_mode = "All" THEN TRUE
    ELSE IF filter_mode = "Untranslated" THEN ~entry.is_translated
    ELSE entry.is_fuzzy

\* matches_search that looks at msgid only
matches_search_msgid_only(search_query, entry) ==
    IF search_query = <<>> THEN TRUE
    ELSE contains(to_lowercase(entry.msgid), to_lowercase(search_query))

matches_search(search_query, entry) ==
    IF search_query = <<>> THEN TRUE
    ELSE contains(to_lowercase(entry.msgid), to_lowercase(search_query))
             \/ contains(to_lowercase(entry.msgstr), to_lowercase(search_query))

RECURSIVE scan_entries(_, _, _, _)
\* for (i, entry) in entries.iter().enumerate(), from index i on
scan_entries(entries, i, filter_mode, search_query) ==
    IF i >= Len(entries) THEN <<>>
    ELSE (IF matches_filter(filter_mode, entries[i + 1])
              /\ matches_search(search_query, entries[i + 1])
          THEN <<i>> ELSE <<>>)
             \o scan_entries(entries, i + 1, filter_mode, search_query)

\* update_filtered_indices without "Adjust current_entry if needed"
update_filtered_indices_no_clamp(a) ==
    [a EXCEPT !.filtered_indices =
        scan_entries(a.po_file.entries, 0, a.filter_mode, a.search_query)]

update_filtered_indices(a) ==
    LET fi == scan_entries(a.po_file.entries, 0, a.filter_mode, a.search_query)
    IN [a EXCEPT !.filtered_indices = fi,
                 !.current_entry =
                     IF a.current_entry >= Len(fi) /\ fi # <<>> THEN Len(fi) - 1 ELSE @]

update_list_state(a) ==
    [a EXCEPT !.list_state =
        IF a.filtered_indices # <<>> THEN Some(a.current_entry) ELSE None]

App_new(po_file) ==
    update_list_state(update_filtered_indices(
        [po_file |-> po_file,
         current_entry |-> 0,
         list_state |-> None,
         editing |-> FALSE,
         edit_field |-> "Msgstr",
         edit_text |-> <<>>,
         edit_cursor |-> 0,
         search_mode |-> FALSE,
         search_query |-> <<>>,
         search_cursor |-> 0,
         filter_mode |-> "All",
         filtered_indices |-> <<>>,
         help_visible |-> FALSE,
         metadata_mode |-> FALSE,
         metadata_key |-> <<>>,
         metadata_selected |-> 0]))

next_entry(a) ==
    IF a.filtered_indices # <<>>
    THEN update_list_state(
             [a EXCEPT !.current_entry = Min2(@ + 1, Len(a.filtered_indices) - 1)])
    ELSE a

previous_entry(a) ==
    IF a.current_entry > 0
    THEN update_list_state([a EXCEPT !.current_entry = @ - 1])
    ELSE a

\* page_up that subtracts PAGE_SIZE whatever current_entry is
page_up_unguarded(a) ==
    update_list_state([a EXCEPT !.current_entry = @ - PAGE_SIZE])

page_up(a) ==
    update_list_state(
        [a EXCEPT !.current_entry = IF @ >= PAGE_SIZE THEN @ - PAGE_SIZE ELSE 0])

page_down(a) ==
    IF a.filtered_indices # <<>>
    THEN update_list_state(
             [a EXCEPT !.current_entry = Min2(@ + PAGE_SIZE, Len(a.filtered_indices) - 1)])
    ELSE a

go_to_first(a) == update_list_state([a EXCEPT !.current_entry = 0])

go_to_last(a) ==
    IF a.filtered_indices # <<>>
    THEN update_list_state([a EXCEPT !.current_entry = Len(a.filtered_indices) - 1])
    ELSE a

\* self.filtered_indices[self.current_entry] past the end of the view: a panic
index_panics(a) ==
    a.filtered_indices # <<>> /\ a.current_entry >= Len(a.filtered_indices)

start_editing(a) ==
    IF a.filtered_indices # <<>> /\ ~a.search_mode
          /\ a.current_entry < Len(a.filtered_indices)
          /\ a.filtered_indices[a.current_entry + 1] < Len(a.po_file.entries)
    THEN LET entry == a.po_file.entries[a.filtered_indices[a.current_entry + 1] + 1]
             text == IF a.edit_field = "Msgid" THEN entry.msgid
                     ELSE IF a.edit_field = "Msgstr" THEN entry.msgstr
                     ELSE IF a.edit_field = "Comments" THEN join(entry.comments, <<NL>>)
                     ELSE <<>>
         IN [a EXCEPT !.editing = TRUE, !.edit_text = text, !.edit_cursor = byte_len(text)]
    ELSE a

apply_metadata_edit(a, now) ==
    IF a.metadata_mode /\ a.metadata_key # <<>>
    THEN [a EXCEPT !.po_file =
             update_revision_date(set_header_field(@, a.metadata_key, a.edit_text), now)]
    ELSE a

apply_edit(a, now) ==
    IF a.edit_field = "Metadata" THEN apply_metadata_edit(a, now)
    ELSE IF a.current_entry < Len(a.filtered_indices)
               /\ a.filtered_indices[a.current_entry + 1] < Len(a.po_file.entries)
    THEN LET k == a.filtered_indices[a.current_entry + 1] + 1
             entry == a.po_file.entries[k]
             edited == IF a.edit_field = "Msgid" THEN [entry EXCEPT !.msgid = a.edit_text]
                       ELSE IF a.edit_field = "Msgstr" THEN set_msgstr(entry, a.edit_text)
                       ELSE [entry EXCEPT !.comments = str_lines(a.edit_text)]
         IN [a EXCEPT !.po_file = mark_modified([@ EXCEPT !.entries[k] = edited])]
    ELSE a

stop_editing(a, now) ==
    IF a.editing THEN [apply_edit(a, now) EXCEPT !.editing = FALSE]
    ELSE IF a.search_mode THEN [a EXCEPT !.search_mode = FALSE]
    ELSE a

next_field(a) ==
    IF ~a.editing /\ ~a.metadata_mode
    THEN [a EXCEPT !.edit_field =
             IF @ = "Msgid" THEN "Msgstr"
             ELSE IF @ = "Msgstr" THEN "Comments"
             ELSE IF @ = "Comments" THEN "Msgid"
             ELSE "Metadata"]
    ELSE a

previous_field(a) ==
    IF ~a.editing /\ ~a.metadata_mode
    THEN [a EXCEPT !.edit_field =
             IF @ = "Msgid" THEN "Comments"
             ELSE IF @ = "Msgstr" THEN "Msgid"
             ELSE IF @ = "Comments" THEN "Msgstr"
             ELSE "Metadata"]
    ELSE a

start_search(a) ==
    [a EXCEPT !.search_mode = TRUE, !.search_cursor = byte_len(a.search_query)]

find_next(a) ==
    IF a.search_query # <<>>
    THEN update_list_state(next_entry(update_filtered_indices(a)))
    ELSE a

find_previous(a) ==
    IF a.search_query # <<>>
    THEN update_list_state(previous_entry(update_filtered_indices(a)))
    ELSE a

\* toggle_untranslated_filter that sets Untranslated whatever the mode is
toggle_untranslated_filter_sticky(a) ==
    update_list_state(update_filtered_indices([a EXCEPT !.filter_mode = "Untranslated"]))

toggle_untranslated_filter(a) ==
    update_list_state(update_filtered_indices(
        [a EXCEPT !.filter_mode = IF @ = "Untranslated" THEN "All" ELSE "Untranslated"]))

toggle_fuzzy_filter(a) ==
    update_list_state(update_filtered_indices(
        [a EXCEPT !.filter_mode = IF @ = "Fuzzy" THEN "All" ELSE "Fuzzy"]))

\* key.code of a key event that reaches the default arm of handle_key_event
Char(c) == <<"Char", c>>
Backspace == <<"Backspace">>
Delete == <<"Delete">>
Left == <<"Left">>
Right == <<"Right">>
Home == <<"Home">>
End == <<"End">>
Enter == <<"Enter">>

handle_search_input(a, code) ==
    IF code[1] = "Char" THEN
        update_list_state(
            [update_filtered_indices(
                 [a EXCEPT !.search_query = insert_char_at(@, a.search_cursor, code[2]),
                           !.search_cursor = @ + 1])
             EXCEPT !.current_entry = 0])
    ELSE IF code = Backspace THEN
        IF a.search_cursor > 0
        THEN update_list_state(
                 [update_filtered_indices(
                      [a EXCEPT !.search_query = remove_char_at(@, a.search_cursor - 1),
                                !.search_cursor = @ - 1])
                  EXCEPT !.current_entry = 0])
        ELSE a
    ELSE IF code = Left THEN
        IF a.search_cursor > 0 THEN [a EXCEPT !.search_cursor = @ - 1] ELSE a
    ELSE IF code = Right THEN
        IF a.search_cursor < Len(a.search_query) THEN [a EXCEPT !.search_cursor = @ + 1] ELSE a
    ELSE IF code = Enter THEN [a EXCEPT !.search_mode = FALSE]
    ELSE a

handle_edit_input(a, code, now) ==
    IF code[1] = "Char" THEN
        [a EXCEPT !.edit_text = insert_char_at(@, a.edit_cursor, code[2]),
                  !.edit_cursor = @ + 1]
    ELSE IF code = Backspace THEN
        IF a.edit_cursor > 0
        THEN [a EXCEPT !.edit_text = remove_char_at(@, a.edit_cursor - 1),
                       !.edit_cursor = @ - 1]
        ELSE a
    ELSE IF code = Delete THEN
        IF a.edit_cursor < Len(a.edit_text)
        THEN [a EXCEPT !.edit_text = remove_char_at(@, a.edit_cursor)]
        ELSE a
    ELSE IF code = Left THEN
        IF a.edit_cursor > 0 THEN [a EXCEPT !.edit_cursor = @ - 1] ELSE a
    ELSE IF code = Right THEN
        IF a.edit_cursor < Len(a.edit_text) THEN [a EXCEPT !.edit_cursor = @ + 1] ELSE a
    ELSE IF code = Home THEN [a EXCEPT !.edit_cursor = 0]
    ELSE IF code = End THEN [a EXCEPT !.edit_cursor = Len(a.edit_text)]
    ELSE IF code = Enter THEN
        IF a.edit_field = "Comments"
        THEN [a EXCEPT !.edit_text = insert_char_at(@, a.edit_cursor, NL),
                       !.edit_cursor = @ + 1]
        ELSE [apply_edit(a, now) EXCEPT !.editing = FALSE]
    ELSE a

handle_input(a, code, now) ==
    IF a.search_mode THEN handle_search_input(a, code)
    ELSE IF a.editing THEN handle_edit_input(a, code, now)
    ELSE a

is_editing(a) == a.editing \/ a.search_mode

toggle_help(a) == [a EXCEPT !.help_visible = ~@]

\* toggle_metadata_mode that leaves edit_field as it is
toggle_metadata_mode_keeps_field(a) ==
    IF a.editing THEN a ELSE [a EXCEPT !.metadata_mode = ~@]

toggle_metadata_mode(a) ==
    IF a.editing THEN a
    ELSE [a EXCEPT !.metadata_mode = ~@,
                   !.edit_field = IF ~a.metadata_mode THEN "Metadata" ELSE "Msgstr"]

start_metadata_editing(a, key) ==
    IF ~a.metadata_mode THEN a
    ELSE LET text == IF key \in header_keys(a.po_file.header)
                     THEN header_get(a.po_file.header, key) ELSE <<>>
         IN [a EXCEPT !.metadata_key = key, !.edit_text = text,
                      !.edit_cursor = Len(text), !.editing = TRUE]

start_editing_selected_metadata(a) ==
    IF a.metadata_mode /\ metadata_keys # <<>> /\ ~a.editing
    THEN start_metadata_editing(a, metadata_keys[a.metadata_selected + 1])
    ELSE a

metadata_next(a) ==
    IF a.metadata_mode /\ ~a.editing /\ a.metadata_selected + 1 < Len(metadata_keys)
    THEN [a EXCEPT !.metadata_selected = @ + 1]
    ELSE a

metadata_previous(a) ==
    IF a.metadata_mode /\ ~a.editing /\ a.metadata_selected > 0
    THEN [a EXCEPT !.metadata_selected = @ - 1]
    ELSE a

\* the guard without the test of an empty msgstr
status_command_applies_any_msgstr(a) ==
    /\ a.filtered_indices # <<>> /\ ~a.editing /\ ~a.search_mode
    /\ a.current_entry < Len(a.filtered_indices)
    /\ a.filtered_indices[a.current_entry + 1] < Len(a.po_file.entries)

\* the guard shared by toggle_current_entry_fuzzy and mark_current_entry_done,
\* with the bounds of the two index expressions
status_command_applies(a) ==
    /\ a.filtered_indices # <<>> /\ ~a.editing /\ ~a.search_mode
    /\ a.current_entry < Len(a.filtered_indices)
    /\ a.filtered_indices[a.current_entry + 1] < Len(a.po_file.entries)
    /\ a.po_file.entries[a.filtered_indices[a.current_entry + 1] + 1].msgstr # <<>>

toggle_current_entry_fuzzy(a, now) ==
    IF status_command_applies(a)
    THEN LET k == a.filtered_indices[a.current_entry + 1] + 1
         IN [a EXCEPT !.po_file =
                update_revision_date(
                    mark_modified([@ EXCEPT !.entries[k] = toggle_fuzzy(@)]), now)]
    ELSE a

\* mark_current_entry_done that clears the flags
mark_current_entry_done_clears_flags(a, now) ==
    IF status_command_applies(a)
    THEN LET k == a.filtered_indices[a.current_entry + 1] + 1
         IN [a EXCEPT !.po_file =
                update_revision_date(
                    mark_modified(
                        [@ EXCEPT !.entries[k] = update_status([@ EXCEPT !.flags = <<>>])]),
                    now)]
    ELSE a

mark_current_entry_done(a, now) ==
    IF status_command_applies(a)
    THEN LET k == a.filtered_indices[a.current_entry + 1] + 1
         IN [a EXCEPT !.po_file =
                update_revision_date(
                    mark_modified(
                        [@ EXCEPT !.entries[k] =
                            update_status([@ EXCEPT !.flags = retain_not_fuzzy(@)])]),
                    now)]
    ELSE a

(***************************************************************************)
(* State                                                                   *)
(***************************************************************************)
VARIABLES
    app,          \* the App of run_app
    status,       \* run_app: "loading", "running", "quit" (Ok), "error" (Err), "panic"
    file,         \* None, or Some(c): the file at the path holds to_string of c
    nkeys,        \* key events read so far
    content,      \* PoFile::parse: its argument
    lines,        \* PoFile::parse: lines
    i,            \* PoFile::parse: i
    start_i,      \* PoFile::parse: start_i of the block parsed last
    parsed,       \* PoFile::parse: po_file
    pc,           \* PoFile::parse: "loop", "block_end", "returned", "panic", "idle"
    pass,         \* 0: run_app's file, 1: an input text, 2: a serialized catalog
    first,        \* the catalog the first pass returned
    lit,          \* a string, its escaped form and the literal decoded again
    txt,          \* a text, a position and a char; the text after insert and remove
    ent           \* a PoEntry, and the entry after one and after two toggle_fuzzy

vars == <<app, status, file, nkeys, content, lines, i, start_i, parsed, pc, pass, first, lit, txt, ent>>

session_vars == <<app, status, file, nkeys>>
parser_vars == <<content, lines, i, start_i, parsed, pc, pass, first>>

text_of(ls) == join(ls, <<NL>>) \o <<NL>>

(***************************************************************************)
(* PoFile::parse step by step                                              *)
(***************************************************************************)
\* "Skip empty lines"
ParseSkipEmpty ==
    /\ pc = "loop"
    /\ i < Len(lines)
    /\ trim(lines[i + 1]) = <<>>
    /\ i' = i + 1
    /\ UNCHANGED <<content, lines, start_i, parsed, pc, pass, first, session_vars, lit, txt, ent>>

\* one iteration of the block loop on a non-empty line
ParseBlock ==
    /\ pc = "loop"
    /\ i < Len(lines)
    /\ trim(lines[i + 1]) # <<>>
    /\ LET b == parse_block(lines, i, parsed)
       IN /\ start_i' = i
          /\ i' = b.i
          /\ parsed' = b.po_file
          /\ pc' = IF b.panic THEN "panic" ELSE "block_end"
    /\ UNCHANGED <<content, lines, pass, first, session_vars, lit, txt, ent>>

\* back to the loop test
ParseContinue ==
    /\ pc = "block_end"
    /\ pc' = "loop"
    /\ UNCHANGED <<content, lines, i, start_i, parsed, pass, first, session_vars, lit, txt, ent>>

\* Ok(po_file)
ParseReturn ==
    /\ pc = "loop"
    /\ i >= Len(lines)
    /\ pc' = "returned"
    /\ UNCHANGED <<content, lines, i, start_i, parsed, pass, first, session_vars, lit, txt, ent>>

(***************************************************************************)
(* The session: run_app and handle_key_event                               *)
(***************************************************************************)
MaxKeys == 5

\* characters that arrive as Char(c) in the default arm of handle_key_event:
\* 'i', 'j' and 'k' without modifiers never do
TypedChars == {"y", "Y", WideChar}

\* A, B and C of the filter/search scenario: (A, x), (B, ""), (C, y, fuzzy)
ScenarioText ==
    text_of(<<MSGID \o <<SP, QUOTE, "A", QUOTE>>,
              MSGSTR \o <<SP, QUOTE, "x", QUOTE>>,
              <<>>,
              MSGID \o <<SP, QUOTE, "B", QUOTE>>,
              MSGSTR \o <<SP, QUOTE, QUOTE>>,
              <<>>,
              <<"#", ",", SP>> \o FUZZY,
              MSGID \o <<SP, QUOTE, "C", QUOTE>>,
              MSGSTR \o <<SP, QUOTE, "y", QUOTE>>>>)

\* a header, a fuzzy entry with an empty comment line, two more flags and a wide
\* character, and an untranslated entry
SmallText ==
    text_of(<<MSGID \o <<SP, QUOTE, QUOTE>>,
              MSGSTR \o <<SP, QUOTE, QUOTE>>,
              <<QUOTE>> \o <<"L", "a", "n", "g", "u", "a", "g", "e">> \o <<":", SP, "y", BSLASH, "n", QUOTE>>,
              <<>>,
              <<"#">>,
              <<"#", ",", SP, "f", ",", SP>> \o FUZZY \o <<",", SP, "g">>,
              MSGID \o <<SP, QUOTE, "Y", QUOTE>>,
              MSGSTR \o <<SP, QUOTE, WideChar, "y", QUOTE>>,
              <<>>,
              <<"#", SP, "c">>,
              MSGID \o <<SP, QUOTE, "y", QUOTE>>,
              MSGSTR \o <<SP, QUOTE, QUOTE>>>>)

\* the texts run_app reads from the file or from the template
FileTexts == {ScenarioText, SmallText}

file_image(po_file) == [header |-> po_file.header, entries |-> po_file.entries]

SessionIdle ==
    /\ app = App_new(PoFile_default)
    /\ status = "idle"
    /\ file = None
    /\ nkeys = 0

ParserIdle ==
    /\ content = <<>>
    /\ lines = <<>>
    /\ i = 0
    /\ start_i = 0
    /\ parsed = PoFile_default
    /\ pc = "idle"
    /\ pass = 0
    /\ first = PoFile_default

LitIdle == lit = [pc |-> "idle", s |-> <<>>, escaped |-> <<>>, decoded |-> <<>>]

TextIdle ==
    txt = [pc |-> "idle", t |-> <<>>, p |-> 0, c |-> "y", inserted |-> <<>>, removed |-> <<>>]

EntryIdle == ent = [pc |-> "idle", e |-> PoEntry_new, once |-> PoEntry_new, twice |-> PoEntry_new]

\* run_app: with a path, PoFile::parse starts on the text read ("loading"); with
\* (None, None) the session starts on PoFile::default()
Init ==
    /\ app = App_new(PoFile_default)
    /\ file = None
    /\ nkeys = 0
    /\ LitIdle
    /\ TextIdle
    /\ EntryIdle
    /\ \/ /\ status = "loading"
          /\ content \in FileTexts
          /\ lines = str_lines(content)
          /\ i = 0
          /\ start_i = 0
          /\ parsed = PoFile_default
          /\ pc = "loop"
          /\ pass = 0
          /\ first = PoFile_default
       \/ /\ status = "running"
          /\ ParserIdle

\* run_app, (Some(path), None): the rest of PoFile::from_file, then App::new
LoadFile ==
    /\ status = "loading"
    /\ pc = "returned"
    /\ app' = App_new(from_file(parsed))
    /\ status' = "running"
    /\ pc' = "idle"
    /\ UNCHANGED <<file, nkeys, content, lines, i, start_i, parsed, pass, first, lit, txt, ent>>

\* run_app, (Some(path), Some(pot_path)): the rest of PoFile::from_pot_template,
\* then App::new
LoadTemplate ==
    /\ status = "loading"
    /\ pc = "returned"
    /\ \E now \in Timestamps : app' = App_new(from_pot_template(parsed, now))
    /\ status' = "running"
    /\ pc' = "idle"
    /\ UNCHANGED <<file, nkeys, content, lines, i, start_i, parsed, pass, first, lit, txt, ent>>

KeyRead == status = "running" /\ nkeys < MaxKeys

\* a key event handled without an error: handle_key_event returns Ok(false)
Handled(a) ==
    /\ app' = a
    /\ nkeys' = nkeys + 1
    /\ UNCHANGED <<status, file, parser_vars, lit, txt, ent>>

\* PoFile::save, io_ok: whether fs::write succeeds.  Its outcome on app a:
\* the App, the file and whether it returned Ok
save(a, io_ok) ==
    IF a.po_file.path = NoPath THEN [app |-> a, file |-> file, ok |-> TRUE]
    ELSE IF io_ok
    THEN [app |-> [a EXCEPT !.po_file.modified = FALSE],
          file |-> Some(file_image(a.po_file)),
          ok |-> TRUE]
    ELSE [app |-> a, file |-> file, ok |-> FALSE]

\* Ctrl+Q that ends the loop and returns without "Save file if modified"
KeyCtrlQ_no_save ==
    /\ KeyRead
    /\ status' = "quit"
    /\ nkeys' = nkeys + 1
    /\ UNCHANGED <<app, file, parser_vars, lit, txt, ent>>

\* Ctrl+Q: the loop ends; "Save file if modified"
KeyCtrlQ ==
    /\ KeyRead
    /\ \E io_ok \in BOOLEAN :
        LET r == IF app.po_file.modified THEN save(app, io_ok)
                 ELSE [app |-> app, file |-> file, ok |-> TRUE]
        IN /\ app' = r.app
           /\ file' = r.file
           /\ status' = IF r.ok THEN "quit" ELSE "error"
    /\ nkeys' = nkeys + 1
    /\ UNCHANGED <<parser_vars, lit, txt, ent>>

\* Ctrl+S: app.save()?
KeyCtrlS ==
    /\ KeyRead
    /\ \E io_ok \in BOOLEAN :
        LET r == save(app, io_ok)
        IN /\ app' = r.app
           /\ file' = r.file
           /\ status' = IF r.ok THEN status ELSE "error"
    /\ nkeys' = nkeys + 1
    /\ UNCHANGED <<parser_vars, lit, txt, ent>>

\* Ctrl+Shift+P: app.save_current_entry()?
KeyCtrlShiftP ==
    /\ KeyRead
    /\ \E io_ok \in BOOLEAN, now \in Timestamps :
        LET r == save(apply_edit(app, now), io_ok)
        IN /\ app' = r.app
           /\ file' = r.file
           /\ status' = IF r.ok THEN status ELSE "error"
    /\ nkeys' = nkeys + 1
    /\ UNCHANGED <<parser_vars, lit, txt, ent>>

\* Up, 'k'
KeyUp ==
    KeyRead /\ Handled(IF app.metadata_mode THEN metadata_previous(app)
                       ELSE previous_entry(app))

\* Down, 'j'
KeyDown ==
    KeyRead /\ Handled(IF app.metadata_mode THEN metadata_next(app) ELSE next_entry(app))

KeyPageUp == KeyRead /\ Handled(page_up(app))

KeyPageDown == KeyRead /\ Handled(page_down(app))

KeyHome == KeyRead /\ Handled(go_to_first(app))

KeyEnd == KeyRead /\ Handled(go_to_last(app))

\* Enter, 'i' without modifiers
KeyEnter ==
    /\ KeyRead
    /\ app' = IF app.metadata_mode THEN start_editing_selected_metadata(app)
              ELSE start_editing(app)
    /\ status' = IF ~app.metadata_mode /\ ~app.search_mode /\ index_panics(app)
                 THEN "panic" ELSE status
    /\ nkeys' = nkeys + 1
    /\ UNCHANGED <<file, parser_vars, lit, txt, ent>>

KeyEsc ==
    /\ KeyRead
    /\ \E now \in Timestamps :
        Handled(IF app.help_visible THEN toggle_help(app) ELSE stop_editing(app, now))

KeyTab == KeyRead /\ Handled(next_field(app))

KeyBackTab == KeyRead /\ Handled(previous_field(app))

KeyCtrlF == KeyRead /\ Handled(start_search(app))

KeyF3 == KeyRead /\ Handled(find_next(app))

KeyShiftF3 == KeyRead /\ Handled(find_previous(app))

KeyCtrlU == KeyRead /\ Handled(toggle_untranslated_filter(app))

KeyCtrlZ == KeyRead /\ Handled(toggle_fuzzy_filter(app))

KeyF1 == KeyRead /\ Handled(toggle_help(app))

KeyF9 == KeyRead /\ Handled(toggle_metadata_mode(app))

\* F2, Ctrl+T
KeyF2 ==
    /\ KeyRead
    /\ \E now \in Timestamps : app' = toggle_current_entry_fuzzy(app, now)
    /\ status' = IF ~app.editing /\ ~app.search_mode /\ index_panics(app)
                 THEN "panic" ELSE status
    /\ nkeys' = nkeys + 1
    /\ UNCHANGED <<file, parser_vars, lit, txt, ent>>

KeyCtrlD ==
    /\ KeyRead
    /\ \E now \in Timestamps : app' = mark_current_entry_done(app, now)
    /\ status' = IF ~app.editing /\ ~app.search_mode /\ index_panics(app)
                 THEN "panic" ELSE status
    /\ nkeys' = nkeys + 1
    /\ UNCHANGED <<file, parser_vars, lit, txt, ent>>

\* the default arm: if app.is_editing() { app.handle_input(key) }
Default(code) ==
    /\ KeyRead
    /\ \E now \in Timestamps :
        Handled(IF is_editing(app) THEN handle_input(app, code, now) ELSE app)

KeyChar == \E c \in TypedChars : Default(Char(c))

KeyBackspace == Default(Backspace)

KeyDelete == Default(Delete)

KeyLeft == Default(Left)

KeyRight == Default(Right)

\* Home, End and Enter with a modifier (Shift+Home, Alt+Enter, ...) match no
\* arm before the default one
KeyModHome == Default(Home)

KeyModEnd == Default(End)

KeyModEnter == Default(Enter)

Next ==
    \/ ParseSkipEmpty
    \/ ParseBlock
    \/ ParseContinue
    \/ ParseReturn
    \/ LoadFile
    \/ LoadTemplate
    \/ KeyCtrlQ
    \/ KeyCtrlS
    \/ KeyCtrlShiftP
    \/ KeyUp
    \/ KeyDown
    \/ KeyPageUp
    \/ KeyPageDown
    \/ KeyHome
    \/ KeyEnd
    \/ KeyEnter
    \/ KeyEsc
    \/ KeyTab
    \/ KeyBackTab
    \/ KeyCtrlF
    \/ KeyF3
    \/ KeyShiftF3
    \/ KeyCtrlU
    \/ KeyCtrlZ
    \/ KeyF1
    \/ KeyF9
    \/ KeyF2
    \/ KeyCtrlD
    \/ KeyChar
    \/ KeyBackspace
    \/ KeyDelete
    \/ KeyLeft
    \/ KeyRight
    \/ KeyModHome
    \/ KeyModEnd
    \/ KeyModEnter

Spec == Init /\ [][Next]_vars

(***************************************************************************)
(* PoFile::parse on sample texts, then PoFile::to_string and parse again    *)
(***************************************************************************)
MaxBlocks == 3

line_msgid(s) == MSGID \o <<SP, QUOTE>> \o s \o <<QUOTE>>
line_msgstr(s) == MSGSTR \o <<SP, QUOTE>> \o s \o <<QUOTE>>

\* runs of lines an input text is put together from
SampleBlocks ==
    {\* a blank line
     <<<<>>>>,
     \* a header
     <<line_msgid(<<>>), line_msgstr(<<>>),
       <<QUOTE, "K", ":", SP, "v", BSLASH, "n", QUOTE>>>>,
     \* a header whose key holds a backslash
     <<line_msgid(<<>>),
       line_msgstr(<<"K", BSLASH, BSLASH, "t", ":", SP, "v", BSLASH, "n">>)>>,
     \* a translated entry
     <<line_msgid(<<"a">>), line_msgstr(<<"b">>)>>,
     \* an untranslated entry, indented, with CR LF line ends
     <<<<SP>> \o line_msgid(<<"c">>) \o <<CR>>, line_msgstr(<<>>) \o <<CR>>>>,
     \* an entry with every kind of field, escapes and continuation lines
     <<<<"#", SP, "t">>,
       <<"#", ".", "x">>,
       <<"#", ":", SP, "r">>,
       <<"#", ",", SP>> \o FUZZY \o <<",", "f">>,
       MSGCTXT \o <<SP, QUOTE, "c", QUOTE>>,
       line_msgid(<<"a", BSLASH, "n">>),
       <<QUOTE, BSLASH, QUOTE, "b", QUOTE>>,
       line_msgstr(<<BSLASH, BSLASH, "n", BSLASH, "t", BSLASH, "q">>)>>,
     \* an obsolete entry
     <<<<"#", "~", SP>> \o line_msgid(<<"o">>)>>,
     \* a bare quoted literal
     <<<<QUOTE, "x", QUOTE>>>>,
     \* a lone quote
     <<<<QUOTE>>>>,
     \* text that matches no rule
     <<<<"x">>>>,
     \* a msgid without a quoted literal, and a continuation line without its
     \* closing quote
     <<MSGID \o <<SP, "x">>, line_msgstr(<<"b">>), <<QUOTE, "z">>>>}

RECURSIVE concat(_)
concat(ss) == IF ss = <<>> THEN <<>> ELSE Head(ss) \o concat(Tail(ss))

InputTexts ==
    {text_of(concat(bs)) :
        bs \in UNION {[1..n -> SampleBlocks] : n \in 1..MaxBlocks}}

InitParse ==
    /\ content \in InputTexts
    /\ lines = str_lines(content)
    /\ i = 0
    /\ start_i = 0
    /\ parsed = PoFile_default
    /\ pc = "loop"
    /\ pass = 1
    /\ first = PoFile_default
    /\ SessionIdle
    /\ LitIdle
    /\ TextIdle
    /\ EntryIdle

\* to_string of the catalog returned, in one of the orders the header may be
\* iterated in, and parse of that text
Serialize ==
    /\ pc = "returned"
    /\ pass = 1
    /\ \E kvs \in iteration_orders(parsed.header) :
        /\ content' = to_string(parsed, kvs)
        /\ lines' = str_lines(to_string(parsed, kvs))
    /\ i' = 0
    /\ start_i' = 0
    /\ first' = parsed
    /\ parsed' = PoFile_default
    /\ pc' = "loop"
    /\ pass' = 2
    /\ UNCHANGED <<session_vars, lit, txt, ent>>

NextParse ==
    \/ ParseSkipEmpty
    \/ ParseBlock
    \/ ParseContinue
    \/ ParseReturn
    \/ Serialize

SpecParse == InitParse /\ [][NextParse]_vars

(***************************************************************************)
(* escape_string and parse_string_literal on a string                      *)
(***************************************************************************)
MaxStrLen == 4

EscapeChars == {BSLASH, QUOTE, NL, TAB, CR, "n", "t", "r", "a"}

Strings == UNION {[1..n -> EscapeChars] : n \in 0..MaxStrLen}

InitLiteral ==
    /\ \E s \in Strings :
           lit = [pc |-> "start", s |-> s, escaped |-> <<>>, decoded |-> <<>>]
    /\ SessionIdle
    /\ ParserIdle
    /\ TextIdle
    /\ EntryIdle

Escape ==
    /\ lit.pc = "start"
    /\ lit' = [lit EXCEPT !.pc = "escaped", !.escaped = escape_string(lit.s)]
    /\ UNCHANGED <<session_vars, parser_vars, txt, ent>>

Decode ==
    /\ lit.pc = "escaped"
    /\ lit' = [lit EXCEPT !.pc = "decoded",
                          !.decoded = parse_string_literal(
                                          <<QUOTE>> \o lit.escaped \o <<QUOTE>>)]
    /\ UNCHANGED <<session_vars, parser_vars, txt, ent>>

\* parse_string_literal on the string between quotes, taken as it is
DecodeLiteral ==
    /\ lit.pc = "start"
    /\ lit' = [lit EXCEPT !.pc = "decoded_literal",
                          !.decoded = parse_string_literal(
                                          <<QUOTE>> \o lit.s \o <<QUOTE>>)]
    /\ UNCHANGED <<session_vars, parser_vars, txt, ent>>

NextLiteral == Escape \/ Decode \/ DecodeLiteral

SpecLiteral == InitLiteral /\ [][NextLiteral]_vars

(***************************************************************************)
(* insert_char_at and remove_char_at on a text                             *)
(***************************************************************************)
MaxTextLen == 3

InitText ==
    /\ \E n \in 0..MaxTextLen : \E t \in [1..n -> TypedChars] :
       \E p \in 0..(n + 1) : \E c \in TypedChars :
           txt = [pc |-> "start", t |-> t, p |-> p, c |-> c,
                  inserted |-> <<>>, removed |-> <<>>]
    /\ SessionIdle
    /\ ParserIdle
    /\ LitIdle
    /\ EntryIdle

\* insert_char_at(&mut text, p, c) with p a position of the text
InsertChar ==
    /\ txt.pc = "start"
    /\ txt.p <= Len(txt.t)
    /\ txt' = [txt EXCEPT !.pc = "inserted",
                          !.inserted = insert_char_at(txt.t, txt.p, txt.c)]
    /\ UNCHANGED <<session_vars, parser_vars, lit, ent>>

\* remove_char_at(&mut text, p): on the text just inserted into, or on the
\* text itself with p at or past its end
RemoveChar ==
    /\ \/ /\ txt.pc = "inserted"
          /\ txt' = [txt EXCEPT !.pc = "removed",
                                !.removed = remove_char_at(txt.inserted, txt.p)]
       \/ /\ txt.pc = "start"
          /\ txt.p >= Len(txt.t)
          /\ txt' = [txt EXCEPT !.pc = "removed_past",
                                !.removed = remove_char_at(txt.t, txt.p)]
    /\ UNCHANGED <<session_vars, parser_vars, lit, ent>>

NextText == InsertChar \/ RemoveChar

SpecText == InitText /\ [][NextText]_vars

(***************************************************************************)
(* PoEntry::toggle_fuzzy on an entry                                       *)
(***************************************************************************)
MaxFlags == 3

FlagNames == {FUZZY, <<"f">>, <<"g">>}

\* entries as parse and the session leave them: update_status has run
InitEntry ==
    /\ \E n \in 0..MaxFlags : \E flags \in [1..n -> FlagNames] :
       \E msgstr \in {<<>>, <<"x">>} :
           LET e == update_status([PoEntry_new EXCEPT !.msgid = <<"A">>,
                                                      !.msgstr = msgstr,
                                                      !.flags = flags])
           IN ent = [pc |-> "start", e |-> e, once |-> e, twice |-> e]
    /\ SessionIdle
    /\ ParserIdle
    /\ LitIdle
    /\ TextIdle

\* entry.toggle_fuzzy(), the first and the second time
ToggleFuzzy ==
    /\ \/ /\ ent.pc = "start"
          /\ ent' = [ent EXCEPT !.pc = "once", !.once = toggle_fuzzy(ent.e)]
       \/ /\ ent.pc = "once"
          /\ ent' = [ent EXCEPT !.pc = "twice", !.twice = toggle_fuzzy(ent.once)]
    /\ UNCHANGED <<session_vars, parser_vars, lit, txt>>

SpecEntry == InitEntry /\ [][ToggleFuzzy]_vars

(***************************************************************************)
(* Navigation keys on a catalog longer than a page                         *)
(***************************************************************************)
MaxEntries == 12

InitNav ==
    /\ \E n \in 1..MaxEntries :
           app = App_new(from_file(
                     [PoFile_default EXCEPT !.entries =
                         [k \in 1..n |->
                             update_status([PoEntry_new EXCEPT !.msgid = <<"A">>])]]))
    /\ status = "running"
    /\ file = None
    /\ nkeys = 0
    /\ ParserIdle
    /\ LitIdle
    /\ TextIdle
    /\ EntryIdle

NextNav ==
    \/ KeyUp
    \/ KeyDown
    \/ KeyPageUp
    \/ KeyPageDown
    \/ KeyHome
    \/ KeyEnd

SpecNav == InitNav /\ [][NextNav]_vars

(***************************************************************************)
(* Metadata mode with any of the recognized keys selected                  *)
(***************************************************************************)
RECURSIVE metadata_down(_, _)
\* Down pressed k times
metadata_down(a, k) == IF k = 0 THEN a ELSE metadata_next(metadata_down(a, k - 1))

\* F9 and then Down k times, on a catalog without a header and on one that
\* holds a PO-Revision-Date
InitMeta ==
    /\ \E k \in 0..(Len(metadata_keys) - 1) :
       \E header \in {{}, {<<PO_REVISION_DATE, <<"y">>>>}} :
           app = metadata_down(
                     toggle_metadata_mode(
                         App_new(from_file([PoFile_default EXCEPT !.header = header]))),
                     k)
    /\ status = "running"
    /\ file = None
    /\ nkeys = 0
    /\ ParserIdle
    /\ LitIdle
    /\ TextIdle
    /\ EntryIdle

NextMeta ==
    \/ KeyEnter
    \/ KeyEsc
    \/ KeyChar
    \/ KeyBackspace
    \/ KeyDown
    \/ KeyUp
    \/ KeyF9

SpecMeta == InitMeta /\ [][NextMeta]_vars

(***************************************************************************)
(* Properties                                                              *)
(***************************************************************************)

\* C1: every iteration of the block loop of PoFile::parse consumes at least one
\* line, whatever the line at its start is, so that the loop reaches the end of
\* the input.
C1_BlockConsumesLine == pc = "block_end" => i > start_i

\* C2: parsing the serialized form of a catalog the parser returned yields the
\* same header content and the same entries, in the same order.
C2_RoundTrip ==
    (pc = "returned" /\ pass = 2)
        => (parsed.header = first.header /\ parsed.entries = first.entries)

\* C3: decoding the quoted, escaped form of a string gives the string back.
C3_EscapeInverse == lit.pc = "decoded" => lit.decoded = lit.s

C3_Witness ==
    lit.pc = "decoded" /\ lit.s = <<BSLASH, "n", QUOTE, NL>> /\ lit.decoded = lit.s

\* C4: in every state of a session each entry has is_fuzzy exactly when its flags
\* hold "fuzzy", and is_translated exactly when its msgstr is not empty and it is
\* not fuzzy.
C4_StatusDerived ==
    \A k \in 1..Len(app.po_file.entries) :
        LET e == app.po_file.entries[k]
        IN /\ e.is_fuzzy <=> (\E f \in 1..Len(e.flags) : e.flags[f] = FUZZY)
           /\ e.is_translated <=> (e.msgstr # <<>> /\ ~e.is_fuzzy)

\* an entry that was untranslated got a translation by an edit and was then
\* marked fuzzy
C4_Witness ==
    \E k \in 1..Len(app.po_file.entries) :
        /\ app.po_file.entries[k].msgid = <<"B">>
        /\ app.po_file.entries[k].msgstr # <<>>
        /\ app.po_file.entries[k].is_fuzzy

\* C5: Esc during an edit, with the help overlay hidden, leaves editing and
\* leaves the catalog (entries, header, modified) as it was.
C5_CancelKeepsCatalog ==
    [][(KeyEsc /\ app.editing /\ ~app.help_visible)
          => (~app'.editing /\ app'.po_file = app.po_file)]_vars

\* C6: Enter during an edit of Msgid or Msgstr writes the buffer into that field
\* of the current entry, sets modified and leaves editing.
C6_EnterCommits ==
    [][(KeyEnter /\ app.editing /\ ~app.search_mode /\ ~app.metadata_mode
            /\ app.edit_field \in {"Msgid", "Msgstr"}
            /\ app.current_entry < Len(app.filtered_indices))
          => LET k == app.filtered_indices[app.current_entry + 1] + 1
             IN /\ ~app'.editing
                /\ app'.po_file.modified
                /\ app.edit_field = "Msgid" => app'.po_file.entries[k].msgid = app.edit_text
                /\ app.edit_field = "Msgstr"
                       => app'.po_file.entries[k].msgstr = app.edit_text]_vars

\* the indices (0-based) of the entries of a that satisfy its filter and its
\* search query
View(a) ==
    {k \in 0..(Len(a.po_file.entries) - 1) :
        LET e == a.po_file.entries[k + 1]
        IN /\ \/ a.filter_mode = "All"
              \/ a.filter_mode = "Untranslated" /\ ~e.is_translated
              \/ a.filter_mode = "Fuzzy" /\ e.is_fuzzy
           /\ \/ a.search_query = <<>>
              \/ contains(to_lowercase(e.msgid), to_lowercase(a.search_query))
              \/ contains(to_lowercase(e.msgstr), to_lowercase(a.search_query))}

\* filtered_indices of a lists View(a) in strictly increasing order
ViewIsFresh(a) ==
    /\ {a.filtered_indices[j] : j \in 1..Len(a.filtered_indices)} = View(a)
    /\ \A j \in 1..(Len(a.filtered_indices) - 1) :
           a.filtered_indices[j] < a.filtered_indices[j + 1]

\* C7: in every state of a session filtered_indices is the ascending list of the
\* entries that satisfy the filter and the query, also after an entry changed.
C7_ViewConsistent == ViewIsFresh(app)

\* the steps that run update_filtered_indices
RecomputesView ==
    \/ KeyCtrlU
    \/ KeyCtrlZ
    \/ (KeyF3 \/ KeyShiftF3) /\ app.search_query # <<>>
    \/ app.search_mode /\ KeyChar
    \/ app.search_mode /\ KeyBackspace /\ app.search_cursor > 0

\* C8: right after update_filtered_indices ran (App::new, a filter toggle, a
\* search keystroke, find-next, find-previous) filtered_indices is the ascending
\* list of the entries that satisfy the filter and the query.
C8_ViewAfterUpdate ==
    /\ []((nkeys = 0 /\ status = "running") => ViewIsFresh(app))
    /\ [][ViewIsFresh(app') \/ ~RecomputesView]_vars

\* the query "Y" selects, of three entries, the one whose msgstr is "y"
C8_Witness ==
    /\ Len(app.po_file.entries) = 3
    /\ app.search_mode
    /\ app.search_query = <<"Y">>
    /\ app.filtered_indices = <<2>>

C9_Entries ==
    <<update_status([PoEntry_new EXCEPT !.msgid = <<"A">>, !.msgstr = <<"x">>]),
      update_status([PoEntry_new EXCEPT !.msgid = <<"B">>]),
      update_status([PoEntry_new EXCEPT !.msgid = <<"C">>, !.msgstr = <<"y">>,
                                        !.flags = <<FUZZY>>])>>

\* C9: for the entries (A, x), (B, ""), (C, y, fuzzy) the view under Fuzzy with
\* the query "y" is the third entry alone, and the view under Untranslated with
\* no query is the second entry alone.
C9_Scenario ==
    app.po_file.entries = C9_Entries =>
        /\ (app.filter_mode = "Fuzzy" /\ app.search_query = <<"y">>)
               => app.filtered_indices = <<2>>
        /\ (app.filter_mode = "Untranslated" /\ app.search_query = <<>>)
               => app.filtered_indices = <<1>>

\* C10: the selection lies in a non-empty view, the view holds indices of
\* entries only, and no index expression of the session panics.
C10_SelectionInRange ==
    /\ app.filtered_indices # <<>> => app.current_entry < Len(app.filtered_indices)
    /\ \A j \in 1..Len(app.filtered_indices) :
           app.filtered_indices[j] \in 0..(Len(app.po_file.entries) - 1)
    /\ status # "panic"

\* the view shrank below the selection, which was moved to its last entry
C10_Witness ==
    /\ Len(app.po_file.entries) = 3
    /\ app.filter_mode = "Fuzzy"
    /\ app.filtered_indices = <<2>>
    /\ app.current_entry = 0
    /\ app.list_state = Some(0)
    /\ nkeys = 2

\* C11: while a field or a metadata value is edited the edit cursor lies between 0
\* and the number of characters of the edit buffer, and while a search is typed
\* the search cursor lies between 0 and the number of characters of the query.
C11_CursorInRange ==
    /\ app.editing => (0 <= app.edit_cursor /\ app.edit_cursor <= Len(app.edit_text))
    /\ app.search_mode
           => (0 <= app.search_cursor /\ app.search_cursor <= Len(app.search_query))

\* the text start_editing is to take of entry e for the field f
FieldText(e, f) ==
    IF f = "Msgid" THEN e.msgid
    ELSE IF f = "Msgstr" THEN e.msgstr
    ELSE IF f = "Comments" THEN join(e.comments, <<NL>>)
    ELSE <<>>

\* the entry the selection points at, on a non-empty view
CurrentEntry(a) == a.po_file.entries[a.filtered_indices[a.current_entry + 1] + 1]

\* C12: begin-edit on a non-empty view, outside search mode, takes the text of the
\* selected field of the current entry into the edit buffer, puts the cursor at
\* its end, counted in characters, and enters editing.
C12_BeginEditEffect ==
    [][(KeyEnter /\ ~app.metadata_mode /\ ~app.search_mode
            /\ app.filtered_indices # <<>>)
          => /\ app'.editing
             /\ app'.edit_text = FieldText(CurrentEntry(app), app.edit_field)
             /\ app'.edit_cursor = Len(app'.edit_text)]_vars

\* C13: begin-edit changes nothing while an edit is in progress, and nothing on an
\* empty view; the text typed so far and the cursor stay.
C13_BeginEditGuard ==
    [][(KeyEnter /\ (app.editing \/ (~app.metadata_mode /\ app.filtered_indices = <<>>)))
          => app' = app]_vars

\* C14: editing and search input are never active together.
C14_ModeExclusive == ~(app.editing /\ app.search_mode)

\* C15: when a save command (Ctrl+S, Ctrl+Shift+P) returns success, the modified
\* flag of the catalog is false, whatever catalog it is, and a catalog that has a
\* path has been written to it.
C15_SaveClearsModified ==
    [][((KeyCtrlS \/ KeyCtrlShiftP) /\ status' = "running")
          => /\ ~app'.po_file.modified
             /\ app.po_file.path # NoPath
                    => file' = Some(file_image(app'.po_file))]_vars

\* C16: quit on a modified catalog saves it before run_app returns (the file is
\* written and the flag cleared; a catalog without a path has no file to write)
\* or returns the failure of the save as an error; quit on an unmodified catalog
\* writes nothing and returns Ok.
C16_QuitSaves ==
    [][KeyCtrlQ
          => IF app.po_file.modified
             THEN \/ /\ status' = "quit"
                     /\ IF app.po_file.path = NoPath
                        THEN file' = file
                        ELSE /\ file' = Some(file_image(app.po_file))
                             /\ ~app'.po_file.modified
                  \/ /\ status' = "error"
                     /\ app.po_file.path # NoPath
                     /\ file' = file
             ELSE status' = "quit" /\ file' = file /\ app' = app]_vars

\* the first key was quit, on a catalog made from a template, which is modified
\* from the start: the catalog is in the file
C16_Witness ==
    /\ nkeys = 1
    /\ status = "quit"
    /\ file = Some(file_image(app.po_file))
    /\ app.po_file.entries # <<>>

\* C17: a commit request while no edit is in progress (Esc with the help overlay
\* hidden, Ctrl+Shift+P) changes no entry's msgid, msgstr or comments and leaves
\* the header as it is.
C17_CommitWithoutEdit ==
    [][(((KeyEsc /\ ~app.help_visible) \/ KeyCtrlShiftP) /\ ~app.editing)
          => /\ app'.po_file.header = app.po_file.header
             /\ \A k \in 1..Len(app.po_file.entries) :
                    /\ app'.po_file.entries[k].msgid = app.po_file.entries[k].msgid
                    /\ app'.po_file.entries[k].msgstr = app.po_file.entries[k].msgstr
                    /\ app'.po_file.entries[k].comments
                           = app.po_file.entries[k].comments]_vars

\* the conditions under which the status commands act: a non-empty view, a
\* current entry with a translation, no edit in progress, no search input
StatusCommandActs(a) ==
    /\ a.filtered_indices # <<>>
    /\ ~a.editing
    /\ ~a.search_mode
    /\ CurrentEntry(a).msgstr # <<>>

HasFuzzyFlag(e) == \E f \in 1..Len(e.flags) : e.flags[f] = FUZZY

\* C18: toggle-fuzzy (F2, Ctrl+T) and mark-done (Ctrl+D) leave the catalog as it
\* is on an empty view, on a current entry without translation, while editing and
\* in search mode; otherwise toggle-fuzzy flips the fuzzy flag of the current
\* entry and sets modified.
C18_GuardedStatusCommands ==
    [][/\ ((KeyF2 \/ KeyCtrlD) /\ ~StatusCommandActs(app))
            => app'.po_file = app.po_file
       /\ (KeyF2 /\ StatusCommandActs(app))
            => /\ HasFuzzyFlag(CurrentEntry(app')) = ~HasFuzzyFlag(CurrentEntry(app))
               /\ CurrentEntry(app').is_fuzzy = ~CurrentEntry(app).is_fuzzy
               /\ app'.po_file.modified]_vars

\* toggle-fuzzy as the first key of a session marked the translated entry A fuzzy
C18_Witness ==
    /\ nkeys = 1
    /\ Len(app.po_file.entries) = 3
    /\ app.po_file.entries[1].msgid = <<"A">>
    /\ app.po_file.entries[1].flags = <<FUZZY>>
    /\ app.po_file.modified

\* C19: a block that does not start the input never changes the header, and adds
\* an entry only if its msgid is not empty: of two blocks with an empty msgid
\* the second is dropped.
C19_HeaderFirst ==
    [][(pc = "loop" /\ pc' = "block_end" /\ i > 0)
          => /\ parsed'.header = parsed.header
             /\ \/ parsed'.entries = parsed.entries
                \/ /\ Len(parsed'.entries) = Len(parsed.entries) + 1
                   /\ SubSeq(parsed'.entries, 1, Len(parsed.entries)) = parsed.entries
                   /\ parsed'.entries[Len(parsed'.entries)].msgid # <<>>]_vars

\* the text of two header blocks was parsed: the header is that of the first
C19_Witness ==
    /\ pc = "returned"
    /\ pass = 1
    /\ Len(lines) = 5
    /\ lines[1] = line_msgid(<<>>)
    /\ lines[4] = line_msgid(<<>>)
    /\ parsed.header = {<<<<"K">>, <<"v">>>>}
    /\ parsed.entries = <<>>

\* the lines of input that make the header {K: v}
HeaderLinesAt(ls, k) ==
    /\ k + 3 <= Len(ls)
    /\ ls[k + 1] = line_msgid(<<>>)
    /\ ls[k + 2] = line_msgstr(<<>>)
    /\ ls[k + 3] = <<QUOTE, "K", ":", SP, "v", BSLASH, "n", QUOTE>>

\* C20: when the first block of the input, after any number of blank lines, has
\* an empty msgid, its key: value lines are in the header once the block is
\* parsed.
C20_HeaderRecognized ==
    [][(pc = "loop" /\ pc' = "block_end" /\ pass = 1
            /\ (\A j \in 1..i : trim(lines[j]) = <<>>)
            /\ HeaderLinesAt(lines, i))
          => parsed'.header = {<<<<"K">>, <<"v">>>>}]_vars

\* C21: in every state of a session, no entry of the catalog has an empty msgid;
\* committing an edit of the Msgid field keeps it so.
C21_NoEmptyMsgid ==
    \A k \in 1..Len(app.po_file.entries) : app.po_file.entries[k].msgid # <<>>

\* the header and entries as they were at the last successful write of the file
\* or, with no write yet, as PoFile::parse returned them at load
Baseline == IF file # None THEN file[1] ELSE file_image(parsed)

\* C22: in every state of a session after the load, if the header or the entries
\* differ from what they were at the load or at the last successful save, then
\* modified is true.
C22_DirtyTracked ==
    (status # "loading" /\ file_image(app.po_file) # Baseline) => app.po_file.modified

\* after a save, a further change: the catalog differs from the file written
C22_Witness ==
    /\ status = "running"
    /\ file # None
    /\ file_image(app.po_file) # file[1]
    /\ app.po_file.entries # <<>>
    /\ app.po_file.modified

\* C23: a catalog initialized from a template that parsed to N entries has N
\* entries with the same msgids in the same order, each with an empty msgstr, no
\* "fuzzy" flag, is_fuzzy false and is_translated false; its PO-Revision-Date is
\* the timestamp of the load; and it is modified.
C23_TemplateInstantiated ==
    [][LoadTemplate =>
          LET p == app'.po_file
          IN /\ Len(p.entries) = Len(parsed.entries)
             /\ \A k \in 1..Len(p.entries) :
                    /\ p.entries[k].msgid = parsed.entries[k].msgid
                    /\ p.entries[k].msgstr = <<>>
                    /\ ~HasFuzzyFlag(p.entries[k])
                    /\ ~p.entries[k].is_fuzzy
                    /\ ~p.entries[k].is_translated
             /\ PO_REVISION_DATE \in header_keys(p.header)
             /\ header_get(p.header, PO_REVISION_DATE) \in Timestamps
             /\ p.modified]_vars

\* the template of three entries, one translated and one fuzzy, just loaded
C23_Witness ==
    /\ status = "running"
    /\ nkeys = 0
    /\ app.po_file.modified
    /\ Len(app.po_file.entries) = 3
    /\ Len(parsed.entries) = 3
    /\ HasFuzzyFlag(parsed.entries[3])
    /\ \A k \in 1..3 : app.po_file.entries[k].msgstr = <<>>

\* C24: for every text t, every position p in 0..chars(t) and every char c,
\* insert_char_at(t, p, c) puts c as a whole code point between the first p chars
\* of t and the rest, and remove_char_at at p then gives t back; remove_char_at
\* at a position p >= chars(t) leaves t unchanged.
C24_InsertRemove ==
    /\ txt.pc \in {"inserted", "removed"} =>
           txt.inserted = SubSeq(txt.t, 1, txt.p) \o <<txt.c>>
                              \o SubSeq(txt.t, txt.p + 1, Len(txt.t))
    /\ txt.pc = "removed" => txt.removed = txt.t
    /\ txt.pc = "removed_past" => txt.removed = txt.t

\* a two-byte char inserted before a two-byte char and removed again
C24_Witness ==
    /\ txt.pc = "removed"
    /\ txt.t = <<"y", WideChar, "y">>
    /\ txt.p = 1
    /\ txt.c = WideChar
    /\ txt.inserted = <<"y", WideChar, WideChar, "y">>
    /\ txt.removed = txt.t

NextField(f) ==
    IF f = "Msgid" THEN "Msgstr" ELSE IF f = "Msgstr" THEN "Comments"
    ELSE IF f = "Comments" THEN "Msgid" ELSE f

PrevField(f) ==
    IF f = "Msgid" THEN "Comments" ELSE IF f = "Msgstr" THEN "Msgid"
    ELSE IF f = "Comments" THEN "Msgstr" ELSE f

Browsing(a) == ~a.editing /\ ~a.metadata_mode /\ ~a.search_mode

\* C25: Tab moves edit_field Msgid -> Msgstr -> Comments -> Msgid and Shift+Tab
\* moves it the other way round, each undoing the other, when the session is
\* browsing; while editing, in metadata mode and in search input both leave
\* edit_field unchanged.
C25_FieldCycling ==
    /\ [](previous_field(next_field(app)).edit_field = app.edit_field
          /\ next_field(previous_field(app)).edit_field = app.edit_field)
    /\ [][/\ KeyTab => app'.edit_field = IF Browsing(app) THEN NextField(app.edit_field)
                                         ELSE app.edit_field
          /\ KeyBackTab => app'.edit_field = IF Browsing(app) THEN PrevField(app.edit_field)
                                             ELSE app.edit_field]_vars

\* the text without its char at index k, or without its last char when k is
\* past the end
WithoutCharAt(t, k) ==
    IF k < Len(t) THEN SubSeq(t, 1, k) \o SubSeq(t, k + 2, Len(t))
    ELSE SubSeq(t, 1, Len(t) - 1)

\* C26: in search input every char typed is inserted into search_query at the
\* cursor and every Backspace with the cursor past the start removes the char
\* before the cursor; both recompute filtered_indices for the new query at once
\* and set current_entry to 0.
C26_SearchTyping ==
    [][/\ (app.search_mode /\ KeyChar) =>
              /\ \E c \in TypedChars :
                     LET k == Min2(app.search_cursor, Len(app.search_query))
                     IN app'.search_query = SubSeq(app.search_query, 1, k) \o <<c>>
                            \o SubSeq(app.search_query, k + 1, Len(app.search_query))
              /\ ViewIsFresh(app')
              /\ app'.current_entry = 0
       /\ (app.search_mode /\ app.search_cursor > 0 /\ KeyBackspace) =>
              /\ app'.search_query = WithoutCharAt(app.search_query, app.search_cursor - 1)
              /\ ViewIsFresh(app')
              /\ app'.current_entry = 0]_vars

\* C27: Enter pressed in search input leaves search input: search_mode becomes
\* false, and search_query stays as it is.
C27_EnterLeavesSearch ==
    [][(KeyEnter /\ app.search_mode /\ ~app.metadata_mode) =>
           (~app'.search_mode /\ app'.search_query = app.search_query)]_vars

\* C28: Ctrl+U sets the filter to Untranslated unless it is Untranslated, and
\* then to All; Ctrl+Z does the same with Fuzzy; so the same toggle applied twice
\* from All gives All again; each toggle recomputes filtered_indices and leaves
\* current_entry in range.
C28_FilterToggles ==
    /\ [](app.filter_mode = "All" =>
              /\ toggle_untranslated_filter(toggle_untranslated_filter(app)).filter_mode = "All"
              /\ toggle_fuzzy_filter(toggle_fuzzy_filter(app)).filter_mode = "All")
    /\ [][/\ KeyCtrlU => app'.filter_mode =
                             IF app.filter_mode = "Untranslated" THEN "All" ELSE "Untranslated"
          /\ KeyCtrlZ => app'.filter_mode =
                             IF app.filter_mode = "Fuzzy" THEN "All" ELSE "Fuzzy"
          /\ (KeyCtrlU \/ KeyCtrlZ) =>
                 /\ ViewIsFresh(app')
                 /\ app'.filtered_indices # <<>> =>
                        (0 <= app'.current_entry
                         /\ app'.current_entry < Len(app'.filtered_indices))]_vars

\* Ctrl+U with the last of three entries selected: the view is the two
\* untranslated or fuzzy entries and the selection is its last
C28_Witness ==
    /\ Len(app.po_file.entries) = 3
    /\ app.filter_mode = "Untranslated"
    /\ app.filtered_indices = <<1, 2>>
    /\ app.current_entry = 1
    /\ nkeys = 2

\* C29: with an empty view, the navigation keys (Up, Down, PageUp, PageDown,
\* Home, End outside metadata mode) leave current_entry and the rest of the
\* session state unchanged.
C29_EmptyViewNoOp ==
    [][(/\ app.filtered_indices = <<>>
        /\ ~app.metadata_mode
        /\ KeyUp \/ KeyDown \/ KeyPageUp \/ KeyPageDown \/ KeyHome \/ KeyEnd)
           => app' = app]_vars

\* C30: on a view of n > 0 entries PageDown sets current_entry to
\* min(current_entry + 10, n - 1) and PageUp to max(current_entry - 10, 0), never
\* below 0; Down and Up move by one with the same clamping.
C30_PageNavigation ==
    [][(app.filtered_indices # <<>> /\ ~app.metadata_mode) =>
           LET n == Len(app.filtered_indices)
               cur == app.current_entry
           IN /\ KeyPageDown => app'.current_entry = Min2(cur + 10, n - 1)
              /\ KeyPageUp =>
                     /\ app'.current_entry = (IF cur - 10 > 0 THEN cur - 10 ELSE 0)
                     /\ app'.current_entry >= 0
              /\ KeyDown => app'.current_entry = Min2(cur + 1, n - 1)
              /\ KeyUp => app'.current_entry = (IF cur - 1 > 0 THEN cur - 1 ELSE 0)]_vars

\* twelve entries: PageDown, Down, PageUp lead to the second entry
C30_Witness ==
    /\ Len(app.filtered_indices) = 12
    /\ nkeys = 3
    /\ app.current_entry = 1

\* the selection points at an entry of the catalog
HasCurrentEntry(a) ==
    /\ a.current_entry < Len(a.filtered_indices)
    /\ a.filtered_indices[a.current_entry + 1] < Len(a.po_file.entries)

\* C31: Ctrl+D on a current entry with a translation, outside an edit and
\* outside search input, removes every "fuzzy" flag, keeps the other flags in
\* their order, leaves the entry not fuzzy and translated, and sets modified.
C31_MarkDone ==
    [][(KeyCtrlD /\ StatusCommandActs(app)) =>
           LET k == app.filtered_indices[app.current_entry + 1] + 1
               e == app.po_file.entries[k]
               d == app'.po_file.entries[k]
           IN /\ d.flags = SelectSeq(e.flags, LAMBDA f : f # FUZZY)
              /\ ~d.is_fuzzy
              /\ d.is_translated
              /\ app'.po_file.modified]_vars

\* the entry with the flags f, fuzzy, g after Ctrl+D
C31_Witness ==
    /\ nkeys = 1
    /\ app.po_file.modified
    /\ app.po_file.entries # <<>>
    /\ app.po_file.entries[1].flags = << <<"f">>, <<"g">> >>
    /\ app.po_file.entries[1].is_translated

\* the flags of an entry as a set
FlagSet(e) == {e.flags[k] : k \in 1..Len(e.flags)}

\* C32: toggle_fuzzy removes "fuzzy" from the flags if it is there and appends
\* it otherwise, leaves the other flags as they are and recomputes the status;
\* applied twice it gives back is_fuzzy, is_translated and the set of flags, on
\* translated and on untranslated entries.
C32_ToggleFuzzy ==
    /\ ent.pc \in {"once", "twice"} =>
           /\ ent.once.flags = IF FUZZY \in FlagSet(ent.e)
                               THEN SelectSeq(ent.e.flags, LAMBDA f : f # FUZZY)
                               ELSE Append(ent.e.flags, FUZZY)
           /\ ent.once.is_fuzzy = (FUZZY \in FlagSet(ent.once))
           /\ ent.once.is_translated = (ent.once.msgstr # <<>> /\ ~ent.once.is_fuzzy)
           /\ ent.once.msgstr = ent.e.msgstr
    /\ ent.pc = "twice" =>
           /\ ent.twice.is_fuzzy = ent.e.is_fuzzy
           /\ ent.twice.is_translated = ent.e.is_translated
           /\ FlagSet(ent.twice) = FlagSet(ent.e)

\* an untranslated entry with the flags f, fuzzy, toggled twice
C32_Witness ==
    /\ ent.pc = "twice"
    /\ ent.e.msgstr = <<>>
    /\ ent.e.flags = << <<"f">>, FUZZY >>
    /\ ent.once.flags = << <<"f">> >>
    /\ ent.twice.flags = << <<"f">>, FUZZY >>

\* C33: F9 changes nothing while an edit is in progress; otherwise it flips
\* metadata_mode and sets edit_field to Metadata on entering and to Msgstr on
\* leaving; in every state metadata_mode holds exactly when edit_field is
\* Metadata.
C33_MetadataMode ==
    /\ [](app.metadata_mode <=> app.edit_field = "Metadata")
    /\ [][KeyF9 =>
             IF app.editing THEN app' = app
             ELSE /\ app'.metadata_mode = ~app.metadata_mode
                  /\ app'.edit_field = IF app'.metadata_mode THEN "Metadata" ELSE "Msgstr"]_vars

\* metadata mode entered from the Comments field, and an edit begun in it
C33_Witness ==
    /\ nkeys = 3
    /\ app.metadata_mode
    /\ app.edit_field = "Metadata"
    /\ app.editing
    /\ app.po_file.entries # <<>>

\* the line numbers, among the lines from + 1 .. to of a block, of the keyword
\* lines that are not keyword, whitespace, quoted literal, and of the lines
\* after the first that start with a quote and are not a quoted literal
MalformedLines(ls, from_i, to_i) ==
    {k + 1 : k \in {j \in from_i..(to_i - 1) :
        LET line == trim(ls[j + 1])
        IN \/ keyword_len_at(line, 1) > 0 /\ regex_match_at(line, 1) = 0
           \/ /\ j > from_i
              /\ starts_with(line, <<QUOTE>>)
              /\ ~(Len(line) >= 2 /\ ends_with(line, <<QUOTE>>))}}

\* C34: after each block, the soft errors recorded for its lines are one per
\* keyword line without a well-formed quoted value and one per continuation
\* line that is not a well-formed quoted literal, each with its line number.
C34_SoftErrors ==
    pc = "block_end" => parse_errors(lines, start_i, i) = MalformedLines(lines, start_i, i)

\* the character an escape letter stands for
EscapeTable(ch) ==
    IF ch = "n" THEN NL ELSE IF ch = "t" THEN TAB ELSE IF ch = "r" THEN CR ELSE ch

RECURSIVE Decoded(_)
\* the decoding table applied from left to right
Decoded(c) ==
    IF c = <<>> THEN <<>>
    ELSE IF c[1] = BSLASH /\ Len(c) >= 2
    THEN (IF c[2] \in {"n", "t", "r", BSLASH, QUOTE}
          THEN <<EscapeTable(c[2])>> ELSE <<BSLASH, c[2]>>)
             \o Decoded(SubSeq(c, 3, Len(c)))
    ELSE <<c[1]>> \o Decoded(Tail(c))

\* C35: parse_string_literal on a quoted string maps \n, \t, \r, \\ and \" to
\* newline, tab, carriage return, backslash and quote, keeps a backslash followed
\* by any other character as those two characters, and copies every other
\* character.
C35_DecodingTable == lit.pc = "decoded_literal" => lit.decoded = Decoded(lit.s)

C35_Witness ==
    /\ lit.pc = "decoded_literal"
    /\ lit.s = <<BSLASH, "a", BSLASH, "t">>
    /\ lit.decoded = <<BSLASH, "a", TAB>>

\* C36: in every state of a session get_stats gives translated + fuzzy <= total,
\* no entry being both translated and fuzzy, so total - translated - fuzzy does
\* not underflow.
C36_StatsPartition ==
    LET st == get_stats(app.po_file)
    IN /\ st[2] + st[3] <= st[1]
       /\ st[1] - st[2] - st[3] >= 0
       /\ \A k \in 1..Len(app.po_file.entries) :
              ~(app.po_file.entries[k].is_translated /\ app.po_file.entries[k].is_fuzzy)

\* three entries: two translated and one fuzzy
C36_Witness ==
    /\ Len(app.po_file.entries) = 3
    /\ get_stats(app.po_file) = <<3, 2, 1>>

\* the entry and the field a commit writes to
Target(a) ==
    <<IF HasCurrentEntry(a) THEN a.filtered_indices[a.current_entry + 1] ELSE -1,
      a.edit_field>>

\* C37: from begin-edit to the commit that ends the edit, the entry and the
\* field that receive the buffer stay the same, whatever keys are pressed in
\* between.
C37_CommitTarget ==
    [][(app.editing /\ app'.editing /\ ~app.metadata_mode) => Target(app') = Target(app)]_vars

\* C38: committing a metadata edit begun on the recognized key K leaves
\* header[K] equal to the edit buffer, for every K of the list, and modified
\* true.
C38_MetadataCommit ==
    [][(KeyEsc /\ app.editing /\ app.metadata_mode /\ ~app.help_visible) =>
           /\ app.metadata_key \in header_keys(app'.po_file.header)
           /\ header_get(app'.po_file.header, app.metadata_key) = app.edit_text
           /\ app'.po_file.modified]_vars

\* C39: Enter while the Comments field is edited inserts a newline at the
\* cursor, advances the cursor by one, keeps the edit going and leaves the
\* catalog as it is.
C39_CommentsEnter ==
    [][(KeyEnter /\ app.editing /\ ~app.metadata_mode /\ app.edit_field = "Comments"
            /\ app.edit_cursor <= Len(app.edit_text)) =>
           /\ app'.edit_text = SubSeq(app.edit_text, 1, app.edit_cursor) \o <<NL>>
                                   \o SubSeq(app.edit_text, app.edit_cursor + 1,
                                             Len(app.edit_text))
           /\ app'.edit_cursor = app.edit_cursor + 1
           /\ app'.editing
           /\ app'.po_file = app.po_file]_vars

\* C40: an edit of Msgid, Msgstr or Comments that is committed with the buffer
\* as begin-edit took it leaves the msgid, msgstr, comments, flags and status
\* of the entry as they were.
C40_EditIdentity ==
    [][(/\ KeyEsc
        /\ app.editing /\ ~app.metadata_mode /\ ~app.help_visible
        /\ HasCurrentEntry(app)
        /\ app.edit_text = FieldText(CurrentEntry(app), app.edit_field)) =>
           LET k == app.filtered_indices[app.current_entry + 1] + 1
               e == app.po_file.entries[k]
               d == app'.po_file.entries[k]
           IN /\ d.msgid = e.msgid
              /\ d.msgstr = e.msgstr
              /\ d.comments = e.comments
              /\ d.flags = e.flags
              /\ d.is_fuzzy = e.is_fuzzy
              /\ d.is_translated = e.is_translated]_vars

=============================================================================
